---- MODULE Spec2Model ----
(***************************************************************************)
(* Model of src/src/main.py: the command-line driver of the ATSP           *)
(* approximation (header line, single runs over a beta list, and the       *)
(* multi-beta sweep).                                                      *)
(*                                                                         *)
(* A printed result line is represented by the sequence of its fields;     *)
(* the ', ' separator of format_output is the boundary between elements.   *)
(* Print statements that only trace progress ('Using exact computation',   *)
(* 'About to run', ...) are not result lines and are not modelled.         *)
(***************************************************************************)
EXTENDS Integers, Sequences, FiniteSets, TLC

\* ---------------------------------------------------------------- bounds
MaxLen == 5        \* longest asymmetry-factor list
MaxFac == 2        \* factor values are drawn from 1..MaxFac, betas from 0..MaxFac
NumNodes == 3      \* nodes of the graph
MaxBetas == 2      \* longest --beta list
MaxHalvings == 6   \* cap on the number of halvings of asym_ratio

\* An asymmetry factor is the ratio of the larger to the smaller directed cost
\* of a pair: at least 1, and 1 exactly for a symmetric pair.
FacVals == 1..MaxFac

\* values of --beta (0 asks for the exact solution)
BetaVals == 0..MaxFac

\* All sequences over S of length lo..hi
SeqsOf(S, lo, hi) == UNION {[1..n -> S] : n \in lo..hi}

VARIABLES
    args,        \* parsed command line: algo, compute_tour, output_tour, multibeta, beta_list
    matrix,      \* the preprocessed matrix: its nodes and its asymmetry factors (unsorted)
    pc,          \* position of the driver
    header,      \* the header line printed by main (<<>> before it is printed)
    out,         \* result lines printed so far, oldest first, each with its provenance
    facs,        \* multibeta: the descending-sorted factor list
    asym_k,      \* multibeta: asym_ratio = 1 / 2^asym_k
    beta_index,  \* multibeta: the index computed in the current iteration
    beta,        \* the beta of the current run
    runs,        \* history of the calls of run: beta, index, and whether facs was indexed
    bi,          \* main: number of betas of beta_list already taken
    calls,       \* number of invocations of concorde_asym, the dummy oracle and the extenders
    oracleLog,   \* every application of an oracle: which one, its argument, its result
    err          \* the exception that ended the program, or "none"

vars == <<args, matrix, pc, header, out, facs, asym_k, beta_index, beta, runs, bi,
          calls, oracleLog, err>>

Algos == {"treedoubling", "christofides", "heldkarp"}

\* ------------------------------------------------------- pure functions

\* Python 3 round() of the exact quotient num/den (num >= 0, den > 0):
\* to the nearest integer, ties to the even one.
PyRound(num, den) ==
    LET q == num \div den
        r == num % den
    IN  IF 2 * r < den THEN q
        ELSE IF 2 * r > den THEN q + 1
        ELSE IF q % 2 = 0 THEN q ELSE q + 1

\* mutant: the product truncated (int()) instead of rounded
RatioIndex_truncated(k, n) == n \div (2 ^ k)

\* round(asym_ratio * len(facs)) with asym_ratio = 1/2^k
RatioIndex(k, n) == PyRound(n, 2 ^ k)

\* sorted(s, reverse=True): position i holds the value that has fewer than i
\* larger entries and at least i entries that are not smaller
SortedDesc(s) ==
    [i \in 1..Len(s) |->
        CHOOSE v \in {s[p] : p \in DOMAIN s} :
            /\ Cardinality({p \in DOMAIN s : s[p] > v}) < i
            /\ Cardinality({p \in DOMAIN s : s[p] >= v}) >= i]

\* to_graph(matrix): the graph is represented by its node list in iteration order
to_graph(m) == m.nodes

\* mutant: the compute_tour flag ignored
ExactAlgo_ignoresFlag(compute_tour) == "concorde_asym"

\* the oracle chosen at the top of run and of multibeta
ExactAlgo(compute_tour) == IF compute_tour THEN "concorde_asym" ELSE "dummy"

\* lambda graph: {'cost': 0, 'tour': list(graph)}
DummyOracle(graph) == [cost |-> 0, tour |-> graph]

Reverse(s) == [i \in 1..Len(s) |-> s[Len(s) + 1 - i]]

\* concorde_asym(graph), when it returns: an optimal tour of the graph
\* (unit edge costs; the tour is some order of the nodes)
ConcordeAsym(graph) == [cost |-> Len(graph), tour |-> Reverse(graph)]

ApplyOracle(kind, graph) ==
    IF kind = "dummy" THEN DummyOracle(graph) ELSE ConcordeAsym(graph)

\* Kernelizer: the nodes incident to a pair whose factor exceeds beta
\* (here every such pair set covers the graph, or no pair exceeds beta)
Kernel(g, m, b) ==
    IF \E i \in 1..Len(m.factors) : m.factors[i] > b THEN g ELSE <<>>

\* g_treedoubling / g_christofides, when they return: the oracle's tour of
\* the kernel extended over the residual nodes
Extend(algo, g, m, kind, b) ==
    LET k    == Kernel(g, m, b)
        sub  == ApplyOracle(kind, k)
        rest == Len(g) - Len(k)
    IN  [cost        |-> sub.cost + (IF algo = "treedoubling" THEN 2 * rest ELSE rest),
         tour        |-> IF k = <<>> THEN g ELSE sub.tour,
         kernel_size |-> Len(k)]

RECURSIVE JoinSpace(_)
\* ' '.join(str(n) for n in tour)
JoinSpace(t) ==
    IF t = <<>> THEN ""
    ELSE IF Len(t) = 1 THEN ToString(t[1])
    ELSE ToString(Head(t)) \o " " \o JoinSpace(Tail(t))

\* mutant: the two flags confused
format_output_flagsSwapped(solution, graph_size, b, compute_tour, output_tour) ==
    LET base  == <<ToString(b), ToString(graph_size), ToString(solution.kernel_size)>>
        withC == IF output_tour THEN Append(base, ToString(solution.cost)) ELSE base
    IN  IF compute_tour THEN Append(withC, JoinSpace(solution.tour)) ELSE withC

format_output(solution, graph_size, b, compute_tour, output_tour) ==
    LET base  == <<ToString(b), ToString(graph_size), ToString(solution.kernel_size)>>
        withC == IF compute_tour THEN Append(base, ToString(solution.cost)) ELSE base
    IN  IF output_tour THEN Append(withC, JoinSpace(solution.tour)) ELSE withC

\* the fields of the header line of main
HeaderFields(compute_tour, output_tour) ==
    LET base  == <<"beta", "graph_size", "kernel_size">>
        withC == IF compute_tour THEN Append(base, "tour_cost") ELSE base
    IN  IF output_tour THEN Append(withC, "tour") ELSE withC

\* ------------------------------------------------------------ the driver

ArgsSet(betaLists, multi) ==
    [algo : Algos, compute_tour : BOOLEAN, output_tour : BOOLEAN,
     multibeta : {multi}, beta_list : betaLists]

Init ==
    /\ \/ /\ args \in ArgsSet({<<1>>}, TRUE)
          /\ matrix \in [nodes : {[i \in 1..NumNodes |-> i]},
                         factors : SeqsOf(FacVals, 0, MaxLen)]
       \/ /\ args \in ArgsSet(SeqsOf(BetaVals, 1, MaxBetas), FALSE)
          /\ matrix \in [nodes : {[i \in 1..NumNodes |-> i]},
                         factors : SeqsOf(FacVals, 0, 1)]
    /\ pc = "main"
    /\ header = <<>>
    /\ out = <<>>
    /\ facs = <<>>
    /\ asym_k = 0
    /\ beta_index = 0
    /\ beta = 0
    /\ runs = <<>>
    /\ bi = 0
    /\ calls = [concorde |-> 0, dummy |-> 0, extender |-> 0]
    /\ oracleLog = {}
    /\ err = "none"

\* bookkeeping of one application of an oracle
Called(kind) ==
    IF kind = "dummy" THEN [calls EXCEPT !.dummy = @ + 1]
    ELSE [calls EXCEPT !.concorde = @ + 1]

Logged(kind, graph) ==
    oracleLog \cup {[kind |-> kind, graph |-> graph, result |-> ApplyOracle(kind, graph)]}

\* main, lines 147-160: print the header, then dispatch
MainHeader ==
    /\ pc = "main"
    /\ header' = HeaderFields(args.compute_tour, args.output_tour)
    /\ pc' = IF args.multibeta THEN "multibeta" ELSE "loop"
    /\ UNCHANGED <<args, matrix, out, facs, asym_k, beta_index, beta, runs, bi,
                   calls, oracleLog, err>>

\* main, lines 159-160: the loop over beta_list
MainNextBeta ==
    /\ pc = "loop"
    /\ IF bi < Len(args.beta_list)
       THEN /\ beta' = args.beta_list[bi + 1]
            /\ bi' = bi + 1
            /\ runs' = Append(runs, [beta |-> args.beta_list[bi + 1], index |-> -1,
                                     indexed |-> FALSE])
            /\ pc' = "run"
       ELSE /\ pc' = "done"
            /\ UNCHANGED <<beta, bi, runs>>
    /\ UNCHANGED <<args, matrix, header, out, facs, asym_k, beta_index,
                   calls, oracleLog, err>>

\* mutant: the reference line left out (line 37 commented out like line 35)
MultibetaReference_skipped ==
    /\ pc = "multibeta"
    /\ pc' = "sort"
    /\ UNCHANGED <<args, matrix, header, out, facs, asym_k, beta_index, beta, runs, bi,
                   calls, oracleLog, err>>

\* multibeta, lines 24-37: the reference line from the oracle on the whole graph
MultibetaReference ==
    /\ pc = "multibeta"
    /\ LET g    == to_graph(matrix)
           kind == ExactAlgo(args.compute_tour)
           res  == ApplyOracle(kind, g)
           sol  == [cost |-> res.cost, tour |-> res.tour, kernel_size |-> Len(g)]
       IN  /\ calls' = Called(kind)
           /\ oracleLog' = Logged(kind, g)
           /\ out' = Append(out, [line |-> format_output(sol, Len(g), 0, args.compute_tour,
                                                         args.output_tour),
                                  sol  |-> sol, beta |-> 0, by |-> "oracle"])
    /\ pc' = "sort"
    /\ UNCHANGED <<args, matrix, header, facs, asym_k, beta_index, beta, runs, bi, err>>

\* multibeta, line 37: concorde_asym raises on the whole graph
MultibetaReferenceFails ==
    /\ pc = "multibeta"
    /\ ExactAlgo(args.compute_tour) = "concorde_asym"
    /\ calls' = Called("concorde_asym")
    /\ pc' = "error"
    /\ err' = "SolverError"
    /\ UNCHANGED <<args, matrix, header, out, facs, asym_k, beta_index, beta, runs, bi,
                   oracleLog>>

\* mutant: the factor list used as asymmetry_factors returns it
MultibetaSort_unsorted ==
    /\ pc = "sort"
    /\ facs' = matrix.factors
    /\ asym_k' = 0
    /\ pc' = "select"
    /\ UNCHANGED <<args, matrix, header, out, beta_index, beta, runs, bi,
                   calls, oracleLog, err>>

\* multibeta, lines 39-40
MultibetaSort ==
    /\ pc = "sort"
    /\ facs' = SortedDesc(matrix.factors)
    /\ asym_k' = 0
    /\ pc' = "select"
    /\ UNCHANGED <<args, matrix, header, out, beta_index, beta, runs, bi,
                   calls, oracleLog, err>>

\* mutant: > for >=
UseDefaultBeta_strict(idx, n) == idx > n

\* multibeta, line 43: the test that guards the indexing
UseDefaultBeta(idx, n) == idx >= n

\* multibeta, lines 42-48 up to the call of run
MultibetaSelect ==
    /\ pc = "select"
    /\ LET idx == RatioIndex(asym_k, Len(facs))
       IN  /\ beta_index' = idx
           /\ IF UseDefaultBeta(idx, Len(facs))
              THEN /\ beta' = 1
                   /\ runs' = Append(runs, [beta |-> 1, index |-> idx, indexed |-> FALSE])
                   /\ pc' = "run"
                   /\ err' = err
              ELSE IF idx + 1 \in DOMAIN facs
              THEN /\ beta' = facs[idx + 1]
                   /\ runs' = Append(runs, [beta |-> facs[idx + 1], index |-> idx,
                                            indexed |-> TRUE])
                   /\ pc' = "run"
                   /\ err' = err
              ELSE /\ pc' = "error"
                   /\ err' = "IndexError"
                   /\ UNCHANGED <<beta, runs>>
    /\ UNCHANGED <<args, matrix, header, out, facs, asym_k, bi, calls, oracleLog>>

\* where run returns to
AfterRun == IF args.multibeta THEN "step" ELSE "loop"

ValidAlgo(a) == a \in {"treedoubling", "christofides"}

\* run, lines 57-73, when the extender returns
RunOk ==
    /\ pc = "run"
    /\ ValidAlgo(args.algo)
    /\ LET g    == to_graph(matrix)
           kind == ExactAlgo(args.compute_tour)
           sol  == Extend(args.algo, g, matrix, kind, beta)
       IN  /\ calls' = [Called(kind) EXCEPT !.extender = @ + 1]
           /\ oracleLog' = Logged(kind, Kernel(g, matrix, beta))
           /\ out' = Append(out, [line |-> format_output(sol, Len(g), beta, args.compute_tour,
                                                         args.output_tour),
                                  sol  |-> sol, beta |-> beta, by |-> "extender"])
    /\ pc' = AfterRun
    /\ UNCHANGED <<args, matrix, header, facs, asym_k, beta_index, beta, runs, bi, err>>

\* mutant: the failure caught and the beta skipped
RunFails_swallowed ==
    /\ pc = "run"
    /\ ValidAlgo(args.algo)
    /\ calls' = [calls EXCEPT !.extender = @ + 1]
    /\ pc' = AfterRun
    /\ UNCHANGED <<args, matrix, header, out, facs, asym_k, beta_index, beta, runs, bi,
                   oracleLog, err>>

\* run, lines 67/70: the extender (or the oracle it calls) raises
RunFails ==
    /\ pc = "run"
    /\ ValidAlgo(args.algo)
    /\ calls' = [calls EXCEPT !.extender = @ + 1]
    /\ pc' = "error"
    /\ err' = "SolverError"
    /\ UNCHANGED <<args, matrix, header, out, facs, asym_k, beta_index, beta, runs, bi,
                   oracleLog>>

\* run, lines 71-72
RunInvalidAlgo ==
    /\ pc = "run"
    /\ ~ValidAlgo(args.algo)
    /\ pc' = "error"
    /\ err' = "ValueError"
    /\ UNCHANGED <<args, matrix, header, out, facs, asym_k, beta_index, beta, runs, bi,
                   calls, oracleLog>>

\* mutant: >= for >
Continue_always(idx) == idx >= 0

\* multibeta, line 50: the test that continues the sweep
Continue(idx) == idx > 0

\* multibeta, lines 50-53
MultibetaStep ==
    /\ pc = "step"
    /\ IF Continue(RatioIndex(asym_k, Len(facs)))
       THEN /\ asym_k < MaxHalvings
            /\ asym_k' = asym_k + 1
            /\ pc' = "select"
       ELSE /\ pc' = "done"
            /\ UNCHANGED asym_k
    /\ UNCHANGED <<args, matrix, header, out, facs, beta_index, beta, runs, bi,
                   calls, oracleLog, err>>

Next ==
    \/ MainHeader
    \/ MainNextBeta
    \/ MultibetaReference
    \/ MultibetaReferenceFails
    \/ MultibetaSort
    \/ MultibetaSelect
    \/ RunOk
    \/ RunFails
    \/ RunInvalidAlgo
    \/ MultibetaStep

Spec == Init /\ [][Next]_vars

\* The driver is one sequential thread: whatever step is enabled is taken.
FairSpec == Spec /\ WF_vars(Next)

\* ----------------------------------------------------------- properties

InSweep == args.multibeta

\* i is num/den rounded to the nearest integer, ties to the even one
IsRoundHalfEven(i, num, den) ==
    LET d == IF i * den >= num THEN i * den - num ELSE num - i * den
    IN  /\ 2 * d <= den
        /\ 2 * d = den => i % 2 = 0

\* v stands at 0-based position i when s is put in descending order
IsAtDescIndex(v, i, s) ==
    /\ \E p \in DOMAIN s : s[p] = v
    /\ Cardinality({p \in DOMAIN s : s[p] > v}) <= i
    /\ Cardinality({p \in DOMAIN s : s[p] >= v}) >= i + 1

NumFactors == Len(matrix.factors)
NumDistinct == Cardinality({matrix.factors[p] : p \in DOMAIN matrix.factors})

\* C1 (as amended): in iteration j of the sweep the proportion is 1/2^(j-1);
\* the selected index is round-half-even(proportion * number of factors,
\* duplicates counted); beta is 1 when that index is >= the number of factors,
\* and otherwise the factor at that index of the descending-sorted list.
C1_BetaAtRoundedIndexOfAllFactors ==
    InSweep =>
        \A j \in DOMAIN runs :
            /\ IsRoundHalfEven(runs[j].index, NumFactors, 2 ^ (j - 1))
            /\ IF runs[j].index >= NumFactors
               THEN runs[j].beta = 1
               ELSE IsAtDescIndex(runs[j].beta, runs[j].index, matrix.factors)

C1_Witness ==
    /\ InSweep /\ pc = "done"
    /\ NumDistinct < NumFactors
    /\ \E j \in DOMAIN runs : runs[j].indexed /\ runs[j].index > 0

\* C1 (as stated): beta is the factor at index (proportion * number of
\* DISTINCT factor values) of the descending-sorted list, whenever that index
\* lies in the list.
C1_BetaAtIndexOfDistinctCount ==
    InSweep =>
        \A j \in DOMAIN runs :
            LET i == PyRound(NumDistinct, 2 ^ (j - 1))
            IN  i < NumFactors => IsAtDescIndex(runs[j].beta, i, matrix.factors)

Terminated == pc \in {"done", "error"}

\* C2: the sweep terminates for every factor list, the empty one included:
\* the proportion is halved after every run whose index is positive, the run
\* at index zero is performed, and it is the last one.
C2_SweepTerminates ==
    /\ InSweep => <>Terminated
    /\ [](InSweep =>
            /\ asym_k + 1 >= Len(runs)
            /\ \A j \in DOMAIN runs : j < Len(runs) => runs[j].index > 0
            /\ pc = "step" /\ runs[Len(runs)].index > 0 => asym_k < MaxHalvings
            /\ pc = "done" => /\ runs # <<>>
                              /\ runs[Len(runs)].index = 0
                              /\ Len(runs) = asym_k + 1)

C2_Witness ==
    InSweep /\ pc = "done" /\ Len(runs) >= 4 /\ runs[Len(runs)].index = 0

\* C3: the first result line of a sweep is the oracle's solution of the whole
\* graph, with beta 0 and kernel_size = graph_size = the node count, and it is
\* printed before any run of the extender.
C3_ReferenceLineFirst ==
    InSweep =>
        /\ out = <<>> => calls.extender = 0 /\ runs = <<>>
        /\ runs # <<>> => out # <<>>
        /\ out # <<>> =>
              /\ out[1].by = "oracle"
              /\ out[1].line[1] = "0"
              /\ out[1].line[2] = ToString(Len(matrix.nodes))
              /\ out[1].line[3] = ToString(Len(matrix.nodes))
              /\ \E e \in oracleLog :
                    /\ e.graph = matrix.nodes
                    /\ e.result.cost = out[1].sol.cost
                    /\ e.result.tour = out[1].sol.tour

C3_Witness ==
    InSweep /\ pc = "done" /\ Len(out) >= 3 /\ out[1].by = "oracle" /\ out[2].by = "extender"

\* C4: when every factor is at least 1, the betas of the successive runs of a
\* sweep never decrease, start at 1 and end at the largest factor.
C4_BetasNonDecreasing ==
    (InSweep /\ \A p \in DOMAIN matrix.factors : matrix.factors[p] >= 1) =>
        /\ \A j \in DOMAIN runs : j > 1 => runs[j - 1].beta <= runs[j].beta
        /\ runs # <<>> => runs[1].beta = 1
        /\ (pc = "done" /\ NumFactors > 0) =>
              \A p \in DOMAIN matrix.factors : matrix.factors[p] <= runs[Len(runs)].beta

C4_Witness ==
    /\ InSweep /\ pc = "done"
    /\ \A p \in DOMAIN matrix.factors : matrix.factors[p] >= 1
    /\ \E j \in DOMAIN runs : j > 1 /\ runs[j - 1].beta < runs[j].beta
    /\ \E p \in DOMAIN matrix.factors : p > 1 /\ matrix.factors[p - 1] < matrix.factors[p]

\* C5 (as stated): the selected index strictly decreases from each iteration
\* of a sweep to the next.
C5_IndexStrictlyDecreases ==
    InSweep => \A j \in DOMAIN runs : j > 1 => runs[j].index < runs[j - 1].index

\* C6 (as stated): an invalid algorithm selector is reported (ValueError)
\* before any oracle or extender is invoked and before any result line.
C6_InvalidAlgoBeforeAnyWork ==
    err = "ValueError" =>
        /\ calls.concorde = 0 /\ calls.dummy = 0 /\ calls.extender = 0
        /\ out = <<>>

IsPermutationOf(t, g) ==
    /\ Len(t) = Len(g)
    /\ \A p \in DOMAIN g : Cardinality({q \in DOMAIN t : t[q] = g[p]}) = 1

\* C7: with compute_tour false every oracle application is the dummy's, it
\* returns cost 0 and a tour holding each node of its graph exactly once, and
\* concorde_asym is never invoked.
C7_DummyOracleOnly ==
    ~args.compute_tour =>
        /\ calls.concorde = 0
        /\ calls.dummy = Len(out)
        /\ \A e \in oracleLog :
              /\ e.kind = "dummy"
              /\ e.result.cost = 0
              /\ IsPermutationOf(e.result.tour, e.graph)

C7_Witness ==
    /\ ~args.compute_tour /\ pc = "done" /\ calls.dummy >= 2
    /\ \E e \in oracleLog : e.graph # <<>> /\ e.kind = "dummy"

ExtenderLines == Cardinality({p \in DOMAIN out : out[p].by = "extender"})

\* C8: a failing oracle or extender ends the program: the extender is
\* invoked at most once per run, the failed run prints no line, nothing
\* happens after the failure, and lines already printed never change.
C8_FailurePropagates ==
    /\ [](/\ calls.extender <= Len(runs)
          /\ calls.extender - ExtenderLines \in {0, 1}
          /\ calls.extender - ExtenderLines = 1 => pc = "error" /\ err = "SolverError"
          /\ err = "SolverError" => pc = "error")
    /\ [][/\ pc = "error" => UNCHANGED vars
          /\ Len(out') >= Len(out) /\ SubSeq(out', 1, Len(out)) = out
          /\ err' = "SolverError" => out' = out]_vars

C8_Witness ==
    /\ pc = "error" /\ err = "SolverError"
    /\ Len(runs) >= 3 /\ calls.extender = Len(runs) /\ ExtenderLines = Len(runs) - 1

AllFields == <<"beta", "graph_size", "kernel_size", "tour_cost", "tour">>

FieldText(name, e) ==
    CASE name = "beta"        -> ToString(e.beta)
      [] name = "graph_size"  -> ToString(Len(matrix.nodes))
      [] name = "kernel_size" -> ToString(e.sol.kernel_size)
      [] name = "tour_cost"   -> ToString(e.sol.cost)
      [] name = "tour"        -> JoinSpace(e.sol.tour)

KeepField(name) ==
    /\ name = "tour_cost" => args.compute_tour
    /\ name = "tour" => args.output_tour

\* C9: a result line holds beta, graph_size, kernel_size, then tour_cost iff
\* compute_tour, then the tour iff output_tour; the header names the same
\* fields in the same order and number as every result line.
C9_LineMatchesHeader ==
    header # <<>> =>
        /\ header = SelectSeq(AllFields, KeepField)
        /\ \A p \in DOMAIN out :
              /\ Len(out[p].line) = Len(header)
              /\ \A i \in DOMAIN header : out[p].line[i] = FieldText(header[i], out[p])

C9_Witness ==
    /\ pc = "done" /\ Len(out) >= 2
    /\ args.compute_tour /\ args.output_tour /\ Len(out[2].line) = 5

\* C10: the sorted list is only indexed with 0 <= i < len(facs); an index
\* >= len(facs) gives beta = 1 without indexing; no sweep ends in IndexError.
C10_IndexInRange ==
    /\ err # "IndexError"
    /\ InSweep =>
          \A j \in DOMAIN runs :
              IF runs[j].indexed
              THEN 0 <= runs[j].index /\ runs[j].index < Len(facs)
              ELSE runs[j].index >= Len(facs) /\ runs[j].beta = 1

C10_Witness ==
    /\ InSweep /\ pc = "done" /\ Len(facs) > 0
    /\ ~runs[1].indexed /\ runs[Len(runs)].indexed

====
